---- MODULE Spec2Model ----
(***************************************************************************)
(* Model of the group-expense settlement engine of the trip planner        *)
(* (the financialData computation of src/components/TripCard.tsx) and of   *)
(* the trip state it reads.                                                *)
(*                                                                         *)
(* Money.  The code computes in IEEE doubles.  The model computes exactly, *)
(* in integer units of 0.01/Scale, where Scale is ten times the least      *)
(* common multiple of 1..MaxFamilies, so that total / numFamilies is exact *)
(* for costs given in thousandths.  The tolerance literal 0.01 is          *)
(* therefore Scale units.  A JS number that may be NaN (an item's coste, a           *)
(* contribution accumulator) is a record [nan, v].                         *)
(*                                                                         *)
(* The component.  trip is the trip prop, financialData the value held by  *)
(* useMemo, phase says whether a render is pending ("input") or done       *)
(* ("computed").  depsChanged is the set of useMemo dependencies that are  *)
(* not Object.is-equal to the ones of the last computation.  today is the  *)
(* local calendar date of the clock and zone the side of UTC on which the  *)
(* runtime's time zone lies.  lastOp records the last event, for the       *)
(* properties to refer to.                                                 *)
(***************************************************************************)
EXTENDS Integers, Sequences, FiniteSets, TLC

VARIABLES trip, today, zone, financialData, phase, depsChanged, lastOp

vars == <<trip, today, zone, financialData, phase, depsChanged, lastOp>>

(***************************************************************************)
(* Bounds of the model.                                                    *)
(***************************************************************************)
MaxFamilies == 4
MaxItems == 2
MaxComps == 1

\* The longest reimbursement history the settlement panel is taken to.
MaxHistory == 2

(***************************************************************************)
(* Numbers.                                                                *)
(***************************************************************************)
RECURSIVE Gcd(_, _)
Gcd(a, b) == IF b = 0 THEN a ELSE Gcd(b, a % b)

RECURSIVE LcmUpTo(_)
LcmUpTo(n) == IF n <= 1 THEN 1 ELSE (LcmUpTo(n - 1) * n) \div Gcd(LcmUpTo(n - 1), n)

\* Units per cent: amounts are integer multiples of 0.01/Scale.
Scale == 10 * LcmUpTo(MaxFamilies)

Cents(c) == c * Scale

\* Thousandths of the currency unit.
Mils(m) == m * (Scale \div 10)

\* The literal 0.01 of the settlement code.
Tolerance == Cents(1)

Abs(x) == IF x < 0 THEN -x ELSE x

\* Variant: no more than 0.02 at a time.
MinCapped(a, b) ==
    LET least == IF a <= b THEN a ELSE b
    IN  IF least <= 2 * Tolerance THEN least ELSE 2 * Tolerance

Min(a, b) == IF a <= b THEN a ELSE b

Max(a, b) == IF a >= b THEN a ELSE b

\* A JS number: an exact value, or NaN.
Num(x) == [nan |-> FALSE, v |-> x]

NaN == [nan |-> TRUE, v |-> 0]

\* a + b in JS: NaN is absorbing.
NumAdd(a, b) == IF a.nan \/ b.nan THEN NaN ELSE Num(a.v + b.v)

\* x || 0 in JS, for a number x: NaN and 0 are falsy.
OrZero(x) == IF x.nan \/ x.v = 0 THEN 0 ELSE x.v

(***************************************************************************)
(* The trip (src/types.ts, interface Trip): the fields the engine reads.   *)
(***************************************************************************)
CATEGORIES == <<"Casa", "Transporte", "Comida", "Entradas", "Actividades">>

CategorySet == {CATEGORIES[k] : k \in 1..Len(CATEGORIES)}

RECURSIVE Flat(_, _)
Flat(conceptos, k) ==
    IF k > Len(CATEGORIES) THEN <<>>
    ELSE conceptos[CATEGORIES[k]] \o Flat(conceptos, k + 1)

\* (Object.values(trip.conceptos) as TripItem[][]).flat()
AllItems(t) == Flat(t.conceptos, 1)

RECURSIVE SumCost(_, _)
\* items.reduce((sum, i) => sum + (keep(i) ? (Number(i.coste) || 0) : 0), 0)
SumCost(items, onlyPaid) ==
    IF items = <<>> THEN 0
    ELSE LET i == Head(items)
         IN  (IF onlyPaid /\ ~i.pagado THEN 0 ELSE OrZero(i.coste))
             + SumCost(Tail(items), onlyPaid)

\* Variant: total counts only the items flagged paid.
TotalOfPaidOnly(t) == SumCost(AllItems(t), TRUE)

Total(t) == SumCost(AllItems(t), FALSE)

Paid(t) == SumCost(AllItems(t), TRUE)

RECURSIVE SeqToSet(_)
SeqToSet(s) == IF s = <<>> THEN {} ELSE {Head(s)} \cup SeqToSet(Tail(s))

\* trip.familias.forEach(f => contribution[f] = 0)
InitContribution(t) == [f \in SeqToSet(t.familias) |-> Num(0)]

\* The guard and the update of one item of "Add Expenses".
AddExpense(contribution, item) ==
    IF item.pagado /\ item.pagadoPor # "" /\ item.pagadoPor \in DOMAIN contribution
    THEN [contribution EXCEPT ![item.pagadoPor] = NumAdd(@, item.coste)]
    ELSE contribution

RECURSIVE AddExpenses(_, _)
AddExpenses(contribution, items) ==
    IF items = <<>> THEN contribution
    ELSE AddExpenses(AddExpense(contribution, Head(items)), Tail(items))

\* Variant: the record lowers the debtor's contribution and raises the
\* creditor's.
AddCompensationReversed(contribution, comp) ==
    LET c1 == IF comp.deudor \in DOMAIN contribution
              THEN [contribution EXCEPT ![comp.deudor] = NumAdd(@, Num(-comp.cantidad))]
              ELSE contribution
    IN  IF comp.acreedor \in DOMAIN c1
        THEN [c1 EXCEPT ![comp.acreedor] = NumAdd(@, Num(comp.cantidad))]
        ELSE c1

\* One reimbursement record: the debtor's side, then the creditor's side.
AddCompensation(contribution, comp) ==
    LET c1 == IF comp.deudor \in DOMAIN contribution
              THEN [contribution EXCEPT ![comp.deudor] = NumAdd(@, Num(comp.cantidad))]
              ELSE contribution
    IN  IF comp.acreedor \in DOMAIN c1
        THEN [c1 EXCEPT ![comp.acreedor] = NumAdd(@, Num(-comp.cantidad))]
        ELSE c1

RECURSIVE AddCompensations(_, _)
AddCompensations(contribution, comps) ==
    IF comps = <<>> THEN contribution
    ELSE AddCompensations(AddCompensation(contribution, Head(comps)), Tail(comps))

Contribution(t) ==
    AddCompensations(AddExpenses(InitContribution(t), AllItems(t)), t.compensaciones)

\* Variant: the total is split among the participants who paid an item.
NumFamiliesOfPayers(t) ==
    LET payers == {f \in SeqToSet(t.familias) :
                      \E k \in 1..Len(AllItems(t)) :
                          AllItems(t)[k].pagado /\ AllItems(t)[k].pagadoPor = f}
    IN  IF payers = {} THEN 1 ELSE Cardinality(payers)

\* trip.familias.length || 1
NumFamilies(t) == IF Len(t.familias) = 0 THEN 1 ELSE Len(t.familias)

\* Variant: the total is not split among the participants.
FairShareNoSplit(t) == Total(t)

\* Variant: an empty participant list is guarded by returning 0.
FairShareZeroWhenEmpty(t) == IF Len(t.familias) = 0 THEN 0 ELSE Total(t) \div Len(t.familias)

FairShare(t) == Total(t) \div NumFamilies(t)

\* Variant: the participants are collected from the data, so that a payer
\* who is not listed gets an entry after the listed ones.
BalancesOfEveryoneNamed(t) ==
    LET contribution == Contribution(t)
        fairShare == Total(t) \div NumFamilies(t)
        unlisted == SelectSeq(AllItems(t),
                        LAMBDA i : i.pagado /\ i.pagadoPor # ""
                                   /\ i.pagadoPor \notin DOMAIN contribution)
    IN  [k \in 1..Len(t.familias) |->
            [family |-> t.familias[k],
             contribution |-> OrZero(contribution[t.familias[k]]),
             balance |-> OrZero(contribution[t.familias[k]]) - fairShare]]
        \o [k \in 1..Len(unlisted) |->
            [family |-> unlisted[k].pagadoPor,
             contribution |-> OrZero(unlisted[k].coste),
             balance |-> OrZero(unlisted[k].coste) - fairShare]]

Balances(t) ==
    LET contribution == Contribution(t)
        fairShare == FairShare(t)
    IN  [k \in 1..Len(t.familias) |->
            [family |-> t.familias[k],
             contribution |-> OrZero(contribution[t.familias[k]]),
             balance |-> OrZero(contribution[t.familias[k]]) - fairShare]]

(***************************************************************************)
(* Settlement: the greedy matching of debtors and creditors.               *)
(***************************************************************************)
\* Variant: every negative balance makes a debtor.
FilterDebtorsBelowZero(balances) == SelectSeq(balances, LAMBDA b : b.balance < 0)

\* balances.filter(b => b.balance < -0.01)
FilterDebtors(balances) == SelectSeq(balances, LAMBDA b : b.balance < -Tolerance)

\* balances.filter(b => b.balance > 0.01)
FilterCreditors(balances) == SelectSeq(balances, LAMBDA b : b.balance > Tolerance)

RECURSIVE InsertAscBeforeEquals(_, _)
\* Variant: x goes before the elements that compare equal to it.
InsertAscBeforeEquals(sorted, x) ==
    IF sorted = <<>> THEN <<x>>
    ELSE IF Head(sorted).balance - x.balance < 0
         THEN <<Head(sorted)>> \o InsertAscBeforeEquals(Tail(sorted), x)
         ELSE <<x>> \o sorted

RECURSIVE InsertAsc(_, _)
\* x goes after every element that does not compare greater than it.
InsertAsc(sorted, x) ==
    IF sorted = <<>> THEN <<x>>
    ELSE IF Head(sorted).balance - x.balance <= 0
         THEN <<Head(sorted)>> \o InsertAsc(Tail(sorted), x)
         ELSE <<x>> \o sorted

RECURSIVE SortAsc(_, _)
SortAsc(s, acc) == IF s = <<>> THEN acc ELSE SortAsc(Tail(s), InsertAsc(acc, Head(s)))

RECURSIVE InsertDesc(_, _)
InsertDesc(sorted, x) ==
    IF sorted = <<>> THEN <<x>>
    ELSE IF x.balance - Head(sorted).balance <= 0
         THEN <<Head(sorted)>> \o InsertDesc(Tail(sorted), x)
         ELSE <<x>> \o sorted

RECURSIVE SortDesc(_, _)
SortDesc(s, acc) == IF s = <<>> THEN acc ELSE SortDesc(Tail(s), InsertDesc(acc, Head(s)))

\* Variant: the debtors are left in participant-list order.
DebtorsInListOrder(balances) == FilterDebtors(balances)

\* .sort((a, b) => a.balance - b.balance): stable, most negative first.
Debtors(balances) == SortAsc(FilterDebtors(balances), <<>>)

\* .sort((a, b) => b.balance - a.balance): stable, most positive first.
Creditors(balances) == SortDesc(FilterCreditors(balances), <<>>)

\* The loop's variables before the first iteration.  iterations counts the
\* iterations run; advanced says that every one of them moved a cursor.
LoopStart(balances) ==
    [i |-> 1, j |-> 1,
     currentDebtors |-> Debtors(balances),
     currentCreditors |-> Creditors(balances),
     settlements |-> <<>>,
     iterations |-> 0,
     advanced |-> TRUE]

\* while (i < currentDebtors.length && j < currentCreditors.length)
LoopGuard(st) == st.i <= Len(st.currentDebtors) /\ st.j <= Len(st.currentCreditors)

\* if (Math.abs(debtor.balance) < 0.01) i++
DebtorSettled(balance) == Abs(balance) < Tolerance

\* Variant: the creditor cursor moves after every transfer.
CreditorSettledAlways(balance) == TRUE

\* Variant: the creditor test carries the sign of the debtor filter.
CreditorSettledWrongSign(balance) == balance < -Tolerance

\* if (creditor.balance < 0.01) j++
CreditorSettled(balance) == balance < Tolerance

\* Variant: every transfer is pushed to settlements.
EmitsAlways(amount) == TRUE

\* if (amount > 0.01) settlements.push(...)
Emits(amount) == amount > Tolerance

\* One iteration of the loop body.
LoopBody(st) ==
    LET debtor == st.currentDebtors[st.i]
        creditor == st.currentCreditors[st.j]
        amount == Min(Abs(debtor.balance), creditor.balance)
        dBal == debtor.balance + amount
        cBal == creditor.balance - amount
        i2 == IF DebtorSettled(dBal) THEN st.i + 1 ELSE st.i
        j2 == IF CreditorSettled(cBal) THEN st.j + 1 ELSE st.j
    IN  [i |-> i2, j |-> j2,
         currentDebtors |-> [st.currentDebtors EXCEPT ![st.i].balance = dBal],
         currentCreditors |-> [st.currentCreditors EXCEPT ![st.j].balance = cBal],
         settlements |->
            IF Emits(amount)
            THEN Append(st.settlements,
                        [deudor |-> debtor.family, acreedor |-> creditor.family,
                         cantidad |-> amount])
            ELSE st.settlements,
         iterations |-> st.iterations + 1,
         advanced |-> st.advanced /\ (i2 > st.i \/ j2 > st.j)]

RECURSIVE RunLoop(_, _)
\* The loop, run for at most fuel iterations.
RunLoop(st, fuel) ==
    IF LoopGuard(st) /\ fuel > 0 THEN RunLoop(LoopBody(st), fuel - 1) ELSE st

\* More iterations than the loop can need when each one moves a cursor; a
\* loop cut off by it is left with LoopGuard still true.
LoopFuel(balances) == 2 * Len(balances) + 2

SettlementLoop(balances) == RunLoop(LoopStart(balances), LoopFuel(balances))

Settlements(balances) == SettlementLoop(balances).settlements

\* The final working balance of a family, if the loop holds one.
WorkingBalance(st, entry) ==
    LET ds == {k \in 1..Len(st.currentDebtors) : st.currentDebtors[k].family = entry.family}
        cs == {k \in 1..Len(st.currentCreditors) : st.currentCreditors[k].family = entry.family}
    IN  IF ds # {} THEN st.currentDebtors[CHOOSE k \in ds : TRUE].balance
        ELSE IF cs # {} THEN st.currentCreditors[CHOOSE k \in cs : TRUE].balance
        ELSE entry.balance

\* Variant: the working lists share their entries with balances, so the
\* loop's writes show in the returned balances.
ReturnedBalancesShared(balances, st) ==
    [k \in 1..Len(balances) |->
        [balances[k] EXCEPT !.balance = WorkingBalance(st, balances[k])]]

\* The balances returned after the loop: filter builds new arrays, sort
\* orders those, and the loop writes to the copies map(d => ({ ...d })) made,
\* so the entries of balances are as they were built.
ReturnedBalances(balances, st) == balances

\* Variant: the record names the creditor as debtor and the debtor as
\* creditor.
SettleDebtSwapped(t, deudor, acreedor, cantidad) ==
    [t EXCEPT !.compensaciones =
        Append(@, [deudor |-> acreedor, acreedor |-> deudor, cantidad |-> cantidad])]

\* Variant: the new record is put in front of the history.
SettleDebtPrepends(t, deudor, acreedor, cantidad) ==
    [t EXCEPT !.compensaciones =
        <<[deudor |-> deudor, acreedor |-> acreedor, cantidad |-> cantidad]>> \o @]

\* The record handleSettleDebt appends on confirmation (its fecha is not read
\* by the engine and is left out).
SettleDebt(t, deudor, acreedor, cantidad) ==
    [t EXCEPT !.compensaciones =
        Append(@, [deudor |-> deudor, acreedor |-> acreedor, cantidad |-> cantidad])]

(***************************************************************************)
(* Savings plan.  A calendar date is [year, month, day], month 0..11 as    *)
(* Date.getMonth and day 1.. as Date.getDate.  trip.fechaInicio is the     *)
(* calendar date its 'YYYY-MM-DD' string names.                            *)
(***************************************************************************)
Zones == {"west", "east"}

\* The calendar month before the month of d.
PreviousMonth(d) ==
    IF d.month = 0 THEN [year |-> d.year - 1, month |-> 11]
    ELSE [year |-> d.year, month |-> d.month - 1]

\* new Date(trip.fechaInicio), as getFullYear and getMonth read it: a
\* date-only string is midnight UTC, which west of UTC is still the evening
\* of the day before in local time.
StartObj(fechaInicio, z) ==
    IF z = "west" /\ fechaInicio.day = 1 THEN PreviousMonth(fechaInicio)
    ELSE [year |-> fechaInicio.year, month |-> fechaInicio.month]

getMonthDifference(startDate, endDate) ==
    (endDate.year - startDate.year) * 12 + (endDate.month - startDate.month)

MonthsUntilTrip(t, now, z) == Max(1, getMonthDifference(now, StartObj(t.fechaInicio, z)))

(***************************************************************************)
(* financialData: the record the useMemo callback returns.                 *)
(* monthlySavingNeeded = fairShare / monthsUntilTrip is kept as a fraction.*)
(***************************************************************************)
Engine(t, now, z) ==
    LET balances == Balances(t)
        loop == SettlementLoop(balances)
    IN  [total |-> Total(t),
         paid |-> Paid(t),
         fairShare |-> FairShare(t),
         balances |-> ReturnedBalances(balances, loop),
         settlements |-> loop.settlements,
         monthsUntilTrip |-> MonthsUntilTrip(t, now, z),
         monthlySavingNeeded |->
            [num |-> FairShare(t), den |-> MonthsUntilTrip(t, now, z)]]

\* financialData before the callback has run.
NoResult ==
    [total |-> 0, paid |-> 0, fairShare |-> 0, balances |-> <<>>, settlements |-> <<>>,
     monthsUntilTrip |-> 1, monthlySavingNeeded |-> [num |-> 0, den |-> 1]]

(***************************************************************************)
(* Input snapshots of the engine: any participant list, items paid or      *)
(* unpaid, with or without a payer, with a numeric cost or NaN, and any    *)
(* reimbursement history; StaleName is never a listed participant.         *)
(***************************************************************************)
NamePool == <<"A", "B", "C", "D", "E", "F">>

StaleName == "Z"

FamilyLists == {SubSeq(NamePool, 1, n) : n \in 0..MaxFamilies}

CostChoices == {NaN, Num(Mils(16)), Num(Mils(36))}

PayerChoices == {"", NamePool[1], NamePool[2], StaleName}

\* An unpaid item is skipped whoever it names: it is drawn with no payer or
\* with the first participant.
ItemChoices ==
    {x \in [coste : CostChoices, pagado : BOOLEAN, pagadoPor : PayerChoices] :
        x.pagado \/ x.pagadoPor \in {"", NamePool[1]}}

CompChoices ==
    [deudor : {NamePool[2], StaleName}, acreedor : {NamePool[1], StaleName},
     cantidad : {Mils(26)}]

SeqsUpTo(S, n) == UNION {[1..k -> S] : k \in 0..n}

\* Item m of a snapshot lies in category m (cyclically), in insertion order.
Conceptos(items) ==
    [c \in CategorySet |->
        SelectSeq(items, LAMBDA x : FALSE) \o
        LET idx == {m \in 1..Len(items) : CATEGORIES[((m - 1) % Len(CATEGORIES)) + 1] = c}
            F[k \in 0..Len(items)] ==
                IF k = 0 THEN <<>>
                ELSE IF k \in idx THEN Append(F[k - 1], items[k]) ELSE F[k - 1]
        IN  F[Len(items)]]

StartDate == [year |-> 2026, month |-> 2, day |-> 15]

Now == [year |-> 2025, month |-> 11, day |-> 15]

\* Variant: the dependency list leaves the reimbursement history out.
DepsWithoutCompensaciones == {"conceptos", "familias", "fechaInicio"}

\* The dependency list of useMemo.
Deps == {"conceptos", "familias", "fechaInicio", "compensaciones"}

\* An event, as lastOp records it: the handler, whether it called onUpdate,
\* and the arguments the properties refer to.
Op(op, updated, deudor, acreedor, cantidad, idx) ==
    [op |-> op, updated |-> updated, deudor |-> deudor, acreedor |-> acreedor,
     cantidad |-> cantidad, idx |-> idx]

Mount == Op("mount", FALSE, "", "", 0, 0)

InitEngine ==
    /\ \E fams \in FamilyLists, items \in SeqsUpTo(ItemChoices, MaxItems),
          comps \in SeqsUpTo(CompChoices, MaxComps) :
            trip = [familias |-> fams, conceptos |-> Conceptos(items),
                    compensaciones |-> comps, fechaInicio |-> StartDate]
    /\ today = Now
    /\ zone = "east"
    /\ financialData = NoResult
    /\ phase = "input"
    /\ depsChanged = {"conceptos", "familias", "fechaInicio", "compensaciones"}
    /\ lastOp = Mount

\* A render: useMemo runs its callback when a dependency changed since the
\* last computation (always on the first render), and returns the value it
\* holds otherwise.
Compute ==
    /\ phase = "input"
    /\ financialData' =
          IF depsChanged \cap Deps # {} THEN Engine(trip, today, zone)
          ELSE financialData
    /\ depsChanged' = {}
    /\ phase' = "computed"
    /\ UNCHANGED <<trip, today, zone, lastOp>>

NextEngine == Compute

SpecEngine == InitEngine /\ [][NextEngine]_vars

(***************************************************************************)
(* Snapshots for the savings plan: one participant who paid one item, any  *)
(* start date and clock date of two years, on either side of UTC.          *)
(***************************************************************************)
SavingsStartDates == [year : {2025, 2026}, month : 0..11, day : {1, 15}]

SavingsNowDates == [year : {2025, 2026}, month : {0, 11}, day : {1, 28}]

SavingsCosts == {Cents(30000), Cents(9000)}

InitSavings ==
    /\ \E start \in SavingsStartDates, cost \in SavingsCosts :
          trip = [familias |-> <<NamePool[1]>>,
                  conceptos |-> Conceptos(<<[coste |-> Num(cost), pagado |-> TRUE,
                                             pagadoPor |-> NamePool[1]]>>),
                  compensaciones |-> <<>>, fechaInicio |-> start]
    /\ today \in SavingsNowDates
    /\ zone \in Zones
    /\ financialData = NoResult
    /\ phase = "input"
    /\ depsChanged = {"conceptos", "familias", "fechaInicio", "compensaciones"}
    /\ lastOp = Mount

SpecSavings == InitSavings /\ [][NextEngine]_vars

(***************************************************************************)
(* The component: a card mounted on a newly created trip, its handlers,    *)
(* and the render that follows every update.  A handler runs when no       *)
(* render is pending.                                                      *)
(***************************************************************************)
\* INITIAL_FAMILIES of ./constants: its value is not part of the sources.
InitialFamilyChoices == {<<>>, <<NamePool[1]>>}

\* createTrip: the fields the engine reads.
createTrip(families, date) ==
    [familias |-> families,
     conceptos |-> [c \in CategorySet |-> <<>>],
     compensaciones |-> <<>>,
     fechaInicio |-> date]

\* What the user can type or pick.
FamilyNameChoices == {"", NamePool[1], NamePool[2]}

UsedCategories == {CATEGORIES[1], CATEGORIES[3]}

TypedCosts == {Num(Cents(6000))}

PickedDates == {StartDate, Now}

\* The sequence without its m-th element.
RemoveAt(s, m) == SubSeq(s, 1, m - 1) \o SubSeq(s, m + 1, Len(s))

\* Variant: only the first participant is compared with the new name.
IncludesAtHead(s, x) == s # <<>> /\ s[1] = x

\* trip.familias.includes(newFamilyName)
Includes(s, x) == \E k \in 1..Len(s) : s[k] = x

\* The calendar month after the month of d, same day.
NextMonth(d) ==
    IF d.month = 11 THEN [d EXCEPT !.year = @ + 1, !.month = 0]
    ELSE [d EXCEPT !.month = @ + 1]

Init ==
    /\ \E families \in InitialFamilyChoices : trip = createTrip(families, Now)
    /\ today = Now
    /\ zone = "east"
    /\ financialData = NoResult
    /\ phase = "input"
    /\ depsChanged = {"conceptos", "familias", "fechaInicio", "compensaciones"}
    /\ lastOp = Mount

\* onUpdate(updatedTrip): the card is rendered again with the new trip;
\* changed names the dependencies that are new objects or new values.
onUpdate(updatedTrip, changed) ==
    /\ trip' = updatedTrip
    /\ depsChanged' = depsChanged \cup changed
    /\ phase' = "input"

\* A handler that returns without calling onUpdate.
NoUpdate == UNCHANGED <<trip, depsChanged, phase>>

\* The add-participant form, with a name out of names typed in.
handleAddFamily(names) ==
    /\ phase = "computed"
    /\ \E newFamilyName \in names :
          LET ok == newFamilyName # "" /\ ~Includes(trip.familias, newFamilyName)
          IN  /\ ok => Len(trip.familias) < MaxFamilies
              /\ IF ok
                 THEN onUpdate([trip EXCEPT !.familias = Append(@, newFamilyName)],
                               {"familias"})
                 ELSE NoUpdate
              /\ lastOp' = Op("handleAddFamily", ok, "", "", 0, 0)
    /\ UNCHANGED <<today, zone, financialData>>

handleRemoveFamily ==
    /\ phase = "computed"
    /\ \E k \in 1..Len(trip.familias), confirm \in BOOLEAN :
          LET name == trip.familias[k]
          IN  /\ IF confirm
                 THEN onUpdate([trip EXCEPT !.familias = SelectSeq(@, LAMBDA f : f # name)],
                               {"familias"})
                 ELSE NoUpdate
              /\ lastOp' = Op("handleRemoveFamily", confirm, "", "", 0, 0)
    /\ UNCHANGED <<today, zone, financialData>>

\* The item handleAddItem creates.
newItem == [coste |-> Num(0), pagado |-> FALSE, pagadoPor |-> ""]

handleAddItem ==
    /\ phase = "computed"
    /\ Len(AllItems(trip)) < MaxItems
    /\ \E category \in UsedCategories :
          /\ onUpdate([trip EXCEPT !.conceptos[category] = Append(@, newItem)],
                      {"conceptos"})
          /\ lastOp' = Op("handleAddItem", TRUE, "", "", 0, 0)
    /\ UNCHANGED <<today, zone, financialData>>

\* newItems[index] = { ...newItems[index], [field]: value }, and a payer that
\* is not empty flags the item paid.
UpdatedItem(item, field, value) ==
    IF field = "coste" THEN [item EXCEPT !.coste = value]
    ELSE [item EXCEPT !.pagadoPor = value,
                      !.pagado = IF value # "" THEN TRUE ELSE @]

handleUpdateItem ==
    /\ phase = "computed"
    /\ \E category \in UsedCategories :
       \E index \in 1..Len(trip.conceptos[category]) :
       \E field \in {"coste", "pagadoPor"} :
       \E value \in IF field = "coste" THEN TypedCosts
                    ELSE {""} \cup SeqToSet(trip.familias) :
          /\ onUpdate([trip EXCEPT !.conceptos[category][index] =
                            UpdatedItem(@, field, value)],
                      {"conceptos"})
          /\ lastOp' = Op("handleUpdateItem", TRUE, "", "", 0, 0)
    /\ UNCHANGED <<today, zone, financialData>>

handleDeleteItem ==
    /\ phase = "computed"
    /\ \E category \in UsedCategories :
       \E index \in 1..Len(trip.conceptos[category]) :
          /\ onUpdate([trip EXCEPT !.conceptos[category] = RemoveAt(@, index)],
                      {"conceptos"})
          /\ lastOp' = Op("handleDeleteItem", TRUE, "", "", 0, 0)
    /\ UNCHANGED <<today, zone, financialData>>

\* The "Saldar Deuda" button of a suggestion on display, while the history
\* is shorter than bound.
handleSettleDebt(bound) ==
    /\ phase = "computed"
    /\ Len(trip.compensaciones) < bound
    /\ \E k \in 1..Len(financialData.settlements), confirm \in BOOLEAN :
          LET s == financialData.settlements[k]
          IN  /\ IF confirm
                 THEN onUpdate(SettleDebt(trip, s.deudor, s.acreedor, s.cantidad),
                               {"compensaciones"})
                 ELSE NoUpdate
              /\ lastOp' = Op("handleSettleDebt", confirm, s.deudor, s.acreedor,
                              s.cantidad, 0)
    /\ UNCHANGED <<today, zone, financialData>>

\* Variant: the oldest record is removed, whatever the index.
DeleteSettlementFirst(t, idx) == [t EXCEPT !.compensaciones = Tail(@)]

\* newComps.splice(idx, 1)
DeleteSettlement(t, idx) == [t EXCEPT !.compensaciones = RemoveAt(@, idx)]

handleDeleteSettlement ==
    /\ phase = "computed"
    /\ \E idx \in 1..Len(trip.compensaciones), confirm \in BOOLEAN :
          /\ IF confirm
             THEN onUpdate(DeleteSettlement(trip, idx), {"compensaciones"})
             ELSE NoUpdate
          /\ lastOp' = Op("handleDeleteSettlement", confirm, "", "", 0, idx)
    /\ UNCHANGED <<today, zone, financialData>>

\* The start-date field: onUpdate({ ...trip, fechaInicio: e.target.value }).
changeFechaInicio ==
    /\ phase = "computed"
    /\ \E value \in PickedDates \ {trip.fechaInicio} :
          onUpdate([trip EXCEPT !.fechaInicio = value], {"fechaInicio"})
    /\ lastOp' = Op("changeFechaInicio", TRUE, "", "", 0, 0)
    /\ UNCHANGED <<today, zone, financialData>>

\* A render for a reason other than a trip update (a tab, a position fix),
\* in the calendar month after the one of the first render.
Rerender ==
    /\ phase = "computed"
    /\ today = Now
    /\ today' = NextMonth(today)
    /\ phase' = "input"
    /\ lastOp' = Op("rerender", FALSE, "", "", 0, 0)
    /\ UNCHANGED <<trip, zone, financialData, depsChanged>>

Next ==
    \/ Compute
    \/ handleAddFamily(FamilyNameChoices)
    \/ handleRemoveFamily
    \/ handleAddItem
    \/ handleUpdateItem
    \/ handleDeleteItem
    \/ handleSettleDebt(MaxComps)
    \/ handleDeleteSettlement
    \/ changeFechaInicio
    \/ Rerender

Spec == Init /\ [][Next]_vars

(***************************************************************************)
(* The settlement flow: a card mounted on a saved trip whose items are     *)
(* paid by listed participants, the buttons of the settlement panel, and   *)
(* the render that follows them.                                           *)
(***************************************************************************)
SavedFamilyLists == {SubSeq(NamePool, 1, n) : n \in 2..3}

SavedItems ==
    [coste : {Num(Cents(10000)), Num(Cents(6000)), Num(Cents(3000))},
     pagado : {TRUE}, pagadoPor : {NamePool[1], NamePool[2]}]

InitSettle ==
    /\ \E families \in SavedFamilyLists, items \in SeqsUpTo(SavedItems, MaxItems) :
          trip = [familias |-> families, conceptos |-> Conceptos(items),
                  compensaciones |-> <<>>, fechaInicio |-> StartDate]
    /\ today = Now
    /\ zone = "east"
    /\ financialData = NoResult
    /\ phase = "input"
    /\ depsChanged = {"conceptos", "familias", "fechaInicio", "compensaciones"}
    /\ lastOp = Mount

NextSettle ==
    \/ Compute
    \/ handleSettleDebt(MaxHistory)
    \/ handleDeleteSettlement

SpecSettle == InitSettle /\ [][NextSettle]_vars

(***************************************************************************)
(* The participant panel: a card mounted on a newly created trip, the      *)
(* add-participant form, the remove buttons, and the render that follows.  *)
(***************************************************************************)
TypedNames == {""} \cup SeqToSet(NamePool)

NextFamilies ==
    \/ Compute
    \/ handleAddFamily(TypedNames)
    \/ handleRemoveFamily

SpecFamilies == Init /\ [][NextFamilies]_vars

(***************************************************************************)
(* Settling up: a card mounted on any trip, whose user confirms the first  *)
(* suggestion on display after every render and does nothing else, as     *)
(* long as a suggestion is on display.                                     *)
(***************************************************************************)
MaxConfirmations == 6

\* handleSettleDebt on the first suggestion, confirmed.
ConfirmFirst ==
    /\ phase = "computed"
    /\ financialData.settlements # <<>>
    /\ Len(trip.compensaciones) < MaxConfirmations
    /\ LET s == financialData.settlements[1]
       IN  /\ onUpdate(SettleDebt(trip, s.deudor, s.acreedor, s.cantidad),
                       {"compensaciones"})
           /\ lastOp' = Op("handleSettleDebt", TRUE, s.deudor, s.acreedor,
                           s.cantidad, 0)
    /\ UNCHANGED <<today, zone, financialData>>

NextConfirm ==
    \/ Compute
    \/ ConfirmFirst

\* A pending render takes place.
Render == phase = "input" /\ phase' = "computed"

\* React carries out the render an update schedules, and the user goes on
\* confirming while a suggestion is on display.
SpecConfirm ==
    InitEngine /\ [][NextConfirm]_vars /\ WF_phase(Render) /\ WF_vars(ConfirmFirst)

(***************************************************************************)
(* Vocabulary of the properties.                                           *)
(***************************************************************************)
Computed == phase = "computed"

FamilySet == SeqToSet(trip.familias)

RECURSIVE SumBalance(_)
SumBalance(balances) ==
    IF balances = <<>> THEN 0 ELSE Head(balances).balance + SumBalance(Tail(balances))

RECURSIVE SumContribution(_)
SumContribution(balances) ==
    IF balances = <<>> THEN 0
    ELSE Head(balances).contribution + SumContribution(Tail(balances))

ContributionsOf(balances) == [k \in 1..Len(balances) |-> balances[k].contribution]

\* A suggestion executed on a list of balances: debtor += amount,
\* creditor -= amount.
ApplySettlement(balances, s) ==
    [k \in 1..Len(balances) |->
        [balances[k] EXCEPT !.balance =
            @ + (IF balances[k].family = s.deudor THEN s.cantidad ELSE 0)
              - (IF balances[k].family = s.acreedor THEN s.cantidad ELSE 0)]]

RECURSIVE ApplySubset(_, _, _, _)
\* The suggestions whose position is in chosen, executed in order.
ApplySubset(balances, settlements, chosen, k) ==
    IF k > Len(settlements) THEN balances
    ELSE ApplySubset(IF k \in chosen THEN ApplySettlement(balances, settlements[k])
                     ELSE balances,
                     settlements, chosen, k + 1)

ApplyAll(balances, settlements) ==
    ApplySubset(balances, settlements, 1..Len(settlements), 1)

\* financialData's balances after every returned suggestion is executed.
AfterAll == ApplyAll(financialData.balances, financialData.settlements)

RECURSIVE SettleEach(_, _)
\* Every suggestion recorded in the history, as handleSettleDebt records it.
SettleEach(t, settlements) ==
    IF settlements = <<>> THEN t
    ELSE SettleEach(SettleDebt(t, Head(settlements).deudor, Head(settlements).acreedor,
                               Head(settlements).cantidad),
                    Tail(settlements))

\* The trip with only the items that satisfy keep.
KeepItems(t, keep(_)) ==
    [t EXCEPT !.conceptos = [c \in CategorySet |-> SelectSeq(t.conceptos[c], keep)]]

\* The trip with only the reimbursements that satisfy keep.
KeepComps(t, keep(_)) ==
    [t EXCEPT !.compensaciones = SelectSeq(t.compensaciones, keep)]

\* The cost of an item read as the specification reads it: non-numeric is zero.
CostOf(item) == IF item.coste.nan THEN 0 ELSE item.coste.v

\* Sum of CostOf over the items that satisfy keep.
SumOf(items, keep(_)) ==
    LET F[k \in 0..Len(items)] ==
            IF k = 0 THEN 0
            ELSE F[k - 1] + (IF keep(items[k]) THEN CostOf(items[k]) ELSE 0)
    IN  F[Len(items)]

SumCantidad(comps, keep(_)) ==
    LET F[k \in 0..Len(comps)] ==
            IF k = 0 THEN 0
            ELSE F[k - 1] + (IF keep(comps[k]) THEN comps[k].cantidad ELSE 0)
    IN  F[Len(comps)]

(***************************************************************************)
(* C1.  Zero-sum invariant.                                                *)
(***************************************************************************)
\* C1 as stated: for every input the balances of the listed participants
\* sum to zero, and still do after any subset of the suggestions is applied.
C1_ZeroSum ==
    Computed =>
        \A chosen \in SUBSET (1..Len(financialData.settlements)) :
            SumBalance(ApplySubset(financialData.balances, financialData.settlements,
                                   chosen, 1)) = 0

\* C1 as amended: for a non-empty participant list the balances sum to the
\* sum of the returned contributions minus total (so to zero exactly when
\* the contributions add up to total), for an empty list to zero; applying
\* any subset of the suggestions leaves that sum unchanged.
C1_SumIsContributionsMinusTotal ==
    Computed =>
        /\ SumBalance(financialData.balances) =
              IF trip.familias = <<>> THEN 0
              ELSE SumContribution(financialData.balances) - financialData.total
        /\ \A chosen \in SUBSET (1..Len(financialData.settlements)) :
              SumBalance(ApplySubset(financialData.balances, financialData.settlements,
                                     chosen, 1))
                  = SumBalance(financialData.balances)

\* A run with two suggestions whose balances do not sum to zero.
C1_Witness ==
    /\ Computed
    /\ Len(financialData.settlements) >= 2
    /\ SumBalance(financialData.balances) # 0

C3_Idempotent ==
    Computed =>
        Settlements(Balances(SettleEach(trip, financialData.settlements))) = <<>>

(***************************************************************************)
(* C5.  Contribution and balance of every listed participant.              *)
(***************************************************************************)
\* C5: balances has one entry per listed participant, in list order, with
\* contribution = paid items of that payer + reimbursements made as debtor
\* - reimbursements received as creditor, and balance = contribution
\* - total / max(1, number of participants).
C5_ContributionFormula ==
    Computed =>
        /\ Len(financialData.balances) = Len(trip.familias)
        /\ \A k \in 1..Len(trip.familias) :
              LET p == trip.familias[k]
                  b == financialData.balances[k]
              IN  /\ b.family = p
                  /\ b.contribution =
                        SumOf(AllItems(trip), LAMBDA i : i.pagado /\ i.pagadoPor = p)
                        + SumCantidad(trip.compensaciones, LAMBDA c : c.deudor = p)
                        - SumCantidad(trip.compensaciones, LAMBDA c : c.acreedor = p)
                  /\ b.balance * Max(1, Len(trip.familias)) =
                        b.contribution * Max(1, Len(trip.familias)) - financialData.total

(***************************************************************************)
(* C6.  total, paid, and unpaid items.                                     *)
(***************************************************************************)
\* C6: total sums the cost of all items, paid the cost of the items flagged
\* paid, and an unpaid item counts in total but in no contribution, even if
\* it names a payer.
C6_TotalPaidUnpaid ==
    Computed =>
        /\ financialData.total = SumOf(AllItems(trip), LAMBDA i : TRUE)
        /\ financialData.paid = SumOf(AllItems(trip), LAMBDA i : i.pagado)
        /\ LET paidOnly == KeepItems(trip, LAMBDA i : i.pagado)
           IN  /\ ContributionsOf(Balances(paidOnly))
                     = ContributionsOf(financialData.balances)
               /\ financialData.total =
                     Total(paidOnly) + SumOf(AllItems(trip), LAMBDA i : ~i.pagado)

\* An unpaid item with a cost names a listed payer, beside a paid item.
C6_Witness ==
    /\ Computed
    /\ \E k \in 1..Len(AllItems(trip)) :
          LET i == AllItems(trip)[k]
          IN  ~i.pagado /\ i.pagadoPor \in FamilySet /\ CostOf(i) > 0
    /\ financialData.paid > 0
    /\ financialData.total > financialData.paid

(***************************************************************************)
(* C7.  Stale references.                                                  *)
(***************************************************************************)
StalePayer(i) == i.pagado /\ i.pagadoPor # "" /\ i.pagadoPor \notin FamilySet

\* C7: a paid item with an unlisted payer and the unlisted side of a
\* reimbursement change no listed participant's contribution (dropping the
\* item, or a record with both sides unlisted, changes no contribution; a
\* record with one unlisted side changes at most its listed counterpart),
\* and only listed names appear in balances and in suggestions.
C7_StaleSkipped ==
    Computed =>
        /\ ContributionsOf(Balances(KeepItems(trip, LAMBDA i : ~StalePayer(i))))
              = ContributionsOf(financialData.balances)
        /\ ContributionsOf(Balances(KeepComps(trip,
                LAMBDA c : c.deudor \in FamilySet \/ c.acreedor \in FamilySet)))
              = ContributionsOf(financialData.balances)
        /\ \A m \in 1..Len(trip.compensaciones) :
              LET c == trip.compensaciones[m]
                  without == Balances([trip EXCEPT !.compensaciones = RemoveAt(@, m)])
              IN  (c.deudor \notin FamilySet \/ c.acreedor \notin FamilySet) =>
                     \A k \in 1..Len(trip.familias) :
                        trip.familias[k] \notin {c.deudor, c.acreedor} =>
                           without[k].contribution
                              = financialData.balances[k].contribution
        /\ Len(financialData.balances) = Len(trip.familias)
        /\ \A k \in 1..Len(financialData.balances) :
              financialData.balances[k].family = trip.familias[k]
        /\ \A k \in 1..Len(financialData.settlements) :
              /\ financialData.settlements[k].deudor \in FamilySet
              /\ financialData.settlements[k].acreedor \in FamilySet

\* A paid item with a cost and an unlisted payer, a reimbursement from a
\* listed debtor to an unlisted creditor, and a suggestion.
C7_Witness ==
    /\ Computed
    /\ \E k \in 1..Len(AllItems(trip)) :
          StalePayer(AllItems(trip)[k]) /\ CostOf(AllItems(trip)[k]) > 0
    /\ \E m \in 1..Len(trip.compensaciones) :
          /\ trip.compensaciones[m].deudor \in FamilySet
          /\ trip.compensaciones[m].acreedor \notin FamilySet
    /\ financialData.settlements # <<>>

(***************************************************************************)
(* C8.  Empty participant list.                                            *)
(***************************************************************************)
\* C8: with no participants the engine returns fairShare = total, no
\* balances and no suggestions.
C8_EmptyList ==
    (Computed /\ trip.familias = <<>>) =>
        /\ financialData.fairShare = financialData.total
        /\ financialData.balances = <<>>
        /\ financialData.settlements = <<>>

\* No participants and a non-zero total.
C8_Witness ==
    /\ Computed
    /\ trip.familias = <<>>
    /\ financialData.total > 0

(***************************************************************************)
(* C9.  Non-numeric cost.                                                  *)
(***************************************************************************)
\* The trip with every non-numeric cost replaced by 0.
NaNAsZero(t) ==
    [t EXCEPT !.conceptos =
        [c \in CategorySet |->
            [k \in 1..Len(t.conceptos[c]) |->
                IF t.conceptos[c][k].coste.nan
                THEN [t.conceptos[c][k] EXCEPT !.coste = Num(0)]
                ELSE t.conceptos[c][k]]]]

\* C9: an item with a non-numeric cost counts as cost zero in total, in
\* paid and in its payer's contribution.
C9_NonNumericIsZero ==
    Computed =>
        /\ financialData.total = Total(NaNAsZero(trip))
        /\ financialData.paid = Paid(NaNAsZero(trip))
        /\ ContributionsOf(financialData.balances)
              = ContributionsOf(Balances(NaNAsZero(trip)))

(***************************************************************************)
(* C10.  Termination of the settlement loop.                               *)
(***************************************************************************)
\* C10: the loop ends, every iteration moves the debtor cursor or the
\* creditor cursor, and it runs at most (debtors + creditors) iterations.
C10_LoopTerminates ==
    Computed =>
        LET st == SettlementLoop(financialData.balances)
        IN  /\ ~LoopGuard(st)
            /\ st.advanced
            /\ st.iterations <= Len(st.currentDebtors) + Len(st.currentCreditors)
            /\ financialData.settlements = st.settlements

\* A run of two iterations over two debtors and two creditors.
C10_Witness ==
    /\ Computed
    /\ LET st == SettlementLoop(financialData.balances)
       IN  /\ st.iterations >= 2
           /\ Len(st.currentDebtors) >= 2
           /\ Len(st.currentCreditors) >= 2

(***************************************************************************)
(* C11.  Examples 1 and 3: the two-participant split and its settlement.   *)
(***************************************************************************)
PaidItem(cost, payer) == [coste |-> Num(cost), pagado |-> TRUE, pagadoPor |-> payer]

Balance(family, contribution, balance) ==
    [family |-> family, contribution |-> contribution, balance |-> balance]

Reimbursement(deudor, acreedor, cantidad) ==
    [deudor |-> deudor, acreedor |-> acreedor, cantidad |-> cantidad]

\* Participants [A, B], one item of 100 paid by A.
Example1 ==
    [familias |-> <<NamePool[1], NamePool[2]>>,
     conceptos |-> Conceptos(<<PaidItem(Cents(10000), NamePool[1])>>),
     compensaciones |-> <<>>,
     fechaInicio |-> StartDate]

\* Example1 with the reimbursement B -> A 50 in its history.
Example1Settled ==
    [Example1 EXCEPT !.compensaciones =
        <<Reimbursement(NamePool[2], NamePool[1], Cents(5000))>>]

\* C11: on participants [A, B] with one item of 100 paid by A the engine
\* returns fairShare 50, balances A +50 and B -50 and the one suggestion
\* B -> A 50; with that suggestion recorded as a reimbursement it returns
\* contributions 50 and 50, balances zero and no suggestion.
C11_ExamplesOneAndThree ==
    /\ (Computed /\ trip = Example1) =>
          /\ financialData.fairShare = Cents(5000)
          /\ financialData.balances =
                <<Balance(NamePool[1], Cents(10000), Cents(5000)),
                  Balance(NamePool[2], 0, -Cents(5000))>>
          /\ financialData.settlements =
                <<Reimbursement(NamePool[2], NamePool[1], Cents(5000))>>
    /\ (Computed /\ trip = Example1Settled) =>
          /\ financialData.balances =
                <<Balance(NamePool[1], Cents(5000), 0),
                  Balance(NamePool[2], Cents(5000), 0)>>
          /\ financialData.settlements = <<>>

\* The engine has run on Example1 with the suggestion B -> A 50 confirmed.
C11_Witness ==
    /\ Computed
    /\ trip = Example1Settled
    /\ lastOp = Op("handleSettleDebt", TRUE, NamePool[2], NamePool[1], Cents(5000), 0)

(***************************************************************************)
(* C12.  Example 2: three participants, two payers.                        *)
(***************************************************************************)
\* Participants [A, B, C], A paid an item of 60 and B an item of 30.
Example2 ==
    [familias |-> <<NamePool[1], NamePool[2], NamePool[3]>>,
     conceptos |-> Conceptos(<<PaidItem(Cents(6000), NamePool[1]),
                               PaidItem(Cents(3000), NamePool[2])>>),
     compensaciones |-> <<>>,
     fechaInicio |-> StartDate]

\* C12: on Example2 the engine returns total 90, fairShare 30, contributions
\* 60, 30, 0, balances +30, 0, -30 and the one suggestion C -> A 30, so B
\* is in no suggestion.
C12_ExampleTwo ==
    (Computed /\ trip = Example2) =>
        /\ financialData.total = Cents(9000)
        /\ financialData.fairShare = Cents(3000)
        /\ financialData.balances =
              <<Balance(NamePool[1], Cents(6000), Cents(3000)),
                Balance(NamePool[2], Cents(3000), 0),
                Balance(NamePool[3], 0, -Cents(3000))>>
        /\ financialData.settlements =
              <<Reimbursement(NamePool[3], NamePool[1], Cents(3000))>>
        /\ \A k \in 1..Len(financialData.settlements) :
              NamePool[2] \notin {financialData.settlements[k].deudor,
                                  financialData.settlements[k].acreedor}

\* The engine has run on Example2.
C12_Witness ==
    /\ Computed
    /\ trip = Example2
    /\ financialData.settlements # <<>>

(***************************************************************************)
(* C13.  Savings projection.                                               *)
(***************************************************************************)
\* The calendar-month difference of the specification, on the year and
\* month of the start date as written and of the clock date.
CalendarMonths(start, now) ==
    Max(1, (start.year - now.year) * 12 + (start.month - now.month))

\* C13: monthsUntilTrip is max(1, (startYear - nowYear) * 12 + (startMonth
\* - nowMonth)), an integer >= 1 that does not depend on the day of month
\* of either date, and monthlySavingNeeded is fairShare / monthsUntilTrip
\* (3 months ahead with fairShare 300: 3 and 100).
C13_SavingsProjection ==
    Computed =>
        /\ financialData.monthsUntilTrip = CalendarMonths(trip.fechaInicio, today)
        /\ financialData.monthsUntilTrip >= 1
        /\ financialData.monthlySavingNeeded =
              [num |-> financialData.fairShare,
               den |-> CalendarMonths(trip.fechaInicio, today)]
        /\ \A d \in {x.day : x \in SavingsStartDates}, e \in {x.day : x \in SavingsNowDates} :
              Engine([trip EXCEPT !.fechaInicio.day = d], [today EXCEPT !.day = e],
                     zone).monthsUntilTrip
                  = financialData.monthsUntilTrip
        /\ (CalendarMonths(trip.fechaInicio, today) = 3
               /\ financialData.fairShare = Cents(30000)) =>
              /\ financialData.monthsUntilTrip = 3
              /\ financialData.monthlySavingNeeded.num
                    = Cents(10000) * financialData.monthlySavingNeeded.den

(***************************************************************************)
(* C16.  The result is a function of the snapshot and the current date.    *)
(***************************************************************************)
\* C16: every field of the result record is determined by the participant
\* list, the items, the reimbursement history, the start date and the
\* current date: a run on the same trip at the same date returns the same
\* record wherever it runs.
C16_FunctionOfSnapshot ==
    Computed => \A z \in Zones : Engine(trip, today, z) = financialData

C15_HistoryChangesOnConfirmation ==
    [][/\ trip'.compensaciones # trip.compensaciones =>
             \/ /\ lastOp'.op = "handleSettleDebt"
                /\ lastOp'.updated
                /\ trip' = [trip EXCEPT !.compensaciones =
                              Append(@, Reimbursement(lastOp'.deudor, lastOp'.acreedor,
                                                      lastOp'.cantidad))]
                /\ \E k \in 1..Len(financialData.settlements) :
                      financialData.settlements[k] =
                          Reimbursement(lastOp'.deudor, lastOp'.acreedor,
                                        lastOp'.cantidad)
             \/ /\ lastOp'.op = "handleDeleteSettlement"
                /\ lastOp'.updated
                /\ Len(trip'.compensaciones) = Len(trip.compensaciones) - 1
                /\ [trip' EXCEPT !.compensaciones = <<>>]
                      = [trip EXCEPT !.compensaciones = <<>>]
       /\ (phase = "input" /\ phase' = "computed") => trip' = trip
       /\ (lastOp'.op \in {"handleSettleDebt", "handleDeleteSettlement"}
              /\ ~lastOp'.updated) => trip' = trip]_vars

\* A confirmed suggestion was appended to a history that held a different
\* record.
C15_Witness ==
    /\ lastOp.op = "handleSettleDebt"
    /\ lastOp.updated
    /\ Len(trip.compensaciones) = 2
    /\ trip.compensaciones[2] =
          Reimbursement(lastOp.deudor, lastOp.acreedor, lastOp.cantidad)
    /\ trip.compensaciones[1] # trip.compensaciones[2]

(***************************************************************************)
(* C17.  No stale result after a trip update.                              *)
(***************************************************************************)
\* C17: in every rendered state the record on display is the engine applied
\* to the current trip, as of the date of a render; after a trip update
\* (items, participants, reimbursements or start date) it is the engine
\* applied to the current trip at the current date.
C17_NoStaleResult ==
    Computed =>
        \E at \in {Now, NextMonth(Now)} :
            /\ financialData = Engine(trip, at, zone)
            /\ lastOp.updated => at = today

\* A render after a trip update that followed a change of month, with a
\* suggestion on display.
C17_Witness ==
    /\ Computed
    /\ lastOp.updated
    /\ today # Now
    /\ trip.compensaciones # <<>>
    /\ financialData.settlements # <<>>

(***************************************************************************)
(* C18.  Partition into debtors, creditors and settled participants.       *)
(***************************************************************************)
FamiliesOf(list) == {list[k].family : k \in 1..Len(list)}

\* The position of a family in a list of balance entries or of names.
PositionOf(list, family) == CHOOSE k \in 1..Len(list) : list[k].family = family

PositionInList(t, family) == CHOOSE k \in 1..Len(t.familias) : t.familias[k] = family

\* C18: the debtor list holds exactly the participants with balance
\* < -0.01, once each and with their balance, the creditor list exactly
\* those with balance > 0.01; a participant with balance in [-0.01, 0.01]
\* is in neither list and is debtor or creditor of no suggestion.
C18_Partition ==
    Computed =>
        LET bs == financialData.balances
            ds == Debtors(bs)
            cs == Creditors(bs)
            below == {k \in 1..Len(bs) : bs[k].balance < -Tolerance}
            above == {k \in 1..Len(bs) : bs[k].balance > Tolerance}
        IN  /\ Len(ds) = Cardinality(below)
            /\ {ds[k] : k \in 1..Len(ds)} = {bs[k] : k \in below}
            /\ Len(cs) = Cardinality(above)
            /\ {cs[k] : k \in 1..Len(cs)} = {bs[k] : k \in above}
            /\ \A k \in 1..Len(bs) :
                  (bs[k].balance >= -Tolerance /\ bs[k].balance <= Tolerance) =>
                      /\ bs[k].family \notin FamiliesOf(ds) \cup FamiliesOf(cs)
                      /\ \A m \in 1..Len(financialData.settlements) :
                            bs[k].family \notin {financialData.settlements[m].deudor,
                                                 financialData.settlements[m].acreedor}

\* A debtor, a creditor, a suggestion, and a participant whose balance is
\* not zero but within the tolerance.
C18_Witness ==
    /\ Computed
    /\ financialData.settlements # <<>>
    /\ \E k \in 1..Len(financialData.balances) :
          /\ financialData.balances[k].balance # 0
          /\ Abs(financialData.balances[k].balance) <= Tolerance

(***************************************************************************)
(* C19.  Greedy largest-first matching.                                    *)
(***************************************************************************)
\* C19: the debtor list runs from the most negative balance to the least
\* negative and the creditor list from the most positive to the least
\* positive; every iteration moves min(|debtor's working balance|,
\* creditor's working balance) from the creditor at its cursor to the
\* debtor at its cursor; the first suggestion pairs the most negative
\* debtor with the most positive creditor; along the suggestions the
\* positions of the debtors and of the creditors in their lists never
\* decrease.
C19_GreedyLargestFirst ==
    Computed =>
        LET bs == financialData.balances
            ds == Debtors(bs)
            cs == Creditors(bs)
            ss == financialData.settlements
            last == SettlementLoop(bs)
        IN  /\ \A k \in 1..(Len(ds) - 1) : ds[k].balance <= ds[k + 1].balance
            /\ \A k \in 1..(Len(cs) - 1) : cs[k].balance >= cs[k + 1].balance
            /\ \A n \in 0..(last.iterations - 1) :
                  LET a == RunLoop(LoopStart(bs), n)
                      b == RunLoop(LoopStart(bs), n + 1)
                      d == a.currentDebtors[a.i]
                      c == a.currentCreditors[a.j]
                      owed == IF d.balance < 0 THEN -d.balance ELSE d.balance
                      amount == IF owed <= c.balance THEN owed ELSE c.balance
                  IN  /\ b.currentDebtors[a.i].balance = d.balance + amount
                      /\ b.currentCreditors[a.j].balance = c.balance - amount
                      /\ b.settlements # a.settlements =>
                            b.settlements =
                               Append(a.settlements,
                                      Reimbursement(d.family, c.family, amount))
            /\ ss # <<>> =>
                  /\ ss[1].deudor = ds[1].family
                  /\ ss[1].acreedor = cs[1].family
                  /\ \A k \in 1..Len(bs) :
                        /\ ds[1].balance <= bs[k].balance
                        /\ cs[1].balance >= bs[k].balance
            /\ \A k \in 1..(Len(ss) - 1) :
                  /\ PositionOf(ds, ss[k].deudor) <= PositionOf(ds, ss[k + 1].deudor)
                  /\ PositionOf(cs, ss[k].acreedor) <= PositionOf(cs, ss[k + 1].acreedor)

\* Two suggestions, from debtors that the sort put in another order than
\* the participant list has them.
C19_Witness ==
    /\ Computed
    /\ Len(financialData.settlements) >= 2
    /\ FilterDebtors(financialData.balances) # Debtors(financialData.balances)

(***************************************************************************)
(* C20.  Tie-break by participant-list order.                              *)
(***************************************************************************)
\* C20: two debtors, or two creditors, with equal balances stand in their
\* sorted list in participant-list order, and every suggestion of the one
\* listed first comes before every suggestion of the other.
C20_TieBreak ==
    Computed =>
        LET bs == financialData.balances
            ds == Debtors(bs)
            cs == Creditors(bs)
            ss == financialData.settlements
        IN  /\ \A k, l \in 1..Len(ds) :
                  (k < l /\ ds[k].balance = ds[l].balance) =>
                      PositionInList(trip, ds[k].family)
                          < PositionInList(trip, ds[l].family)
            /\ \A k, l \in 1..Len(cs) :
                  (k < l /\ cs[k].balance = cs[l].balance) =>
                      PositionInList(trip, cs[k].family)
                          < PositionInList(trip, cs[l].family)
            /\ \A m, n \in 1..Len(ss) :
                  /\ (/\ ss[m].deudor # ss[n].deudor
                      /\ bs[PositionOf(bs, ss[m].deudor)].balance
                            = bs[PositionOf(bs, ss[n].deudor)].balance
                      /\ PositionInList(trip, ss[m].deudor)
                            < PositionInList(trip, ss[n].deudor)) => m < n
                  /\ (/\ ss[m].acreedor # ss[n].acreedor
                      /\ bs[PositionOf(bs, ss[m].acreedor)].balance
                            = bs[PositionOf(bs, ss[n].acreedor)].balance
                      /\ PositionInList(trip, ss[m].acreedor)
                            < PositionInList(trip, ss[n].acreedor)) => m < n

\* Two debtors with equal balances and two creditors with equal balances,
\* each in a suggestion.
C20_Witness ==
    /\ Computed
    /\ LET bs == financialData.balances
           ss == financialData.settlements
       IN  \E m, n \in 1..Len(ss) :
              /\ ss[m].deudor # ss[n].deudor
              /\ ss[m].acreedor # ss[n].acreedor
              /\ bs[PositionOf(bs, ss[m].deudor)].balance
                    = bs[PositionOf(bs, ss[n].deudor)].balance
              /\ bs[PositionOf(bs, ss[m].acreedor)].balance
                    = bs[PositionOf(bs, ss[n].acreedor)].balance

(***************************************************************************)
(* C21.  Cursor advancement.                                               *)
(***************************************************************************)
\* C21: after each transfer the debtor cursor moves on exactly when the
\* debtor's working balance is within the tolerance of zero, |balance| <=
\* 0.01, and the creditor cursor exactly when the creditor's working balance
\* is; when the two amounts tie both cursors move in the same iteration; a
\* participant left with a working balance of exactly 0.01 is at the cursor
\* of no later iteration.
C21_CursorAdvancement ==
    Computed =>
        LET bs == financialData.balances
            last == SettlementLoop(bs)
        IN  \A n \in 0..(last.iterations - 1) :
               LET a == RunLoop(LoopStart(bs), n)
                   b == RunLoop(LoopStart(bs), n + 1)
                   d == a.currentDebtors[a.i]
                   c == a.currentCreditors[a.j]
                   dBal == b.currentDebtors[a.i].balance
                   cBal == b.currentCreditors[a.j].balance
               IN  /\ b.i = IF Abs(dBal) <= Tolerance THEN a.i + 1 ELSE a.i
                   /\ b.j = IF Abs(cBal) <= Tolerance THEN a.j + 1 ELSE a.j
                   /\ Abs(d.balance) = c.balance =>
                         (b.i = a.i + 1 /\ b.j = a.j + 1)
                   /\ \A m \in (n + 1)..(last.iterations - 1) :
                         LET later == RunLoop(LoopStart(bs), m)
                         IN  /\ Abs(dBal) = Tolerance =>
                                   later.currentDebtors[later.i].family # d.family
                             /\ Abs(cBal) = Tolerance =>
                                   later.currentCreditors[later.j].family # c.family

(***************************************************************************)
(* C22.  Paid items have a payer.                                          *)
(***************************************************************************)
\* C22: after any sequence of handleAddItem, handleUpdateItem and
\* handleDeleteItem on a new trip, an item is flagged paid exactly when it
\* names a payer: pagado = true implies a non-empty pagadoPor and a
\* non-empty pagadoPor implies pagado = true.
C22_PaidItemsHaveAPayer ==
    \A k \in 1..Len(AllItems(trip)) :
        AllItems(trip)[k].pagado <=> AllItems(trip)[k].pagadoPor # ""

(***************************************************************************)
(* C23.  Participant names are unique and not empty.                       *)
(***************************************************************************)
NoDuplicate(s) == \A k, l \in 1..Len(s) : s[k] = s[l] => k = l

\* C23: on a newly created trip, after any sequence of handleAddFamily and
\* handleRemoveFamily the participant list holds no name twice and no empty
\* name; handleAddFamily either appends one name that is not empty and was
\* not in the list, or leaves the trip as it was; a confirmed
\* handleRemoveFamily takes exactly one name out and keeps the others in
\* their order.
C23_UniqueNames ==
    /\ [](/\ NoDuplicate(trip.familias)
          /\ \A k \in 1..Len(trip.familias) : trip.familias[k] # "")
    /\ [][/\ (phase = "computed" /\ lastOp'.op = "handleAddFamily") =>
                IF lastOp'.updated
                THEN /\ Len(trip'.familias) = Len(trip.familias) + 1
                     /\ SubSeq(trip'.familias, 1, Len(trip.familias)) = trip.familias
                     /\ trip'.familias[Len(trip'.familias)] # ""
                     /\ \A k \in 1..Len(trip.familias) :
                           trip.familias[k] # trip'.familias[Len(trip'.familias)]
                     /\ [trip' EXCEPT !.familias = <<>>] = [trip EXCEPT !.familias = <<>>]
                ELSE trip' = trip
          /\ (phase = "computed" /\ lastOp'.op = "handleRemoveFamily") =>
                IF lastOp'.updated
                THEN /\ \E k \in 1..Len(trip.familias) :
                           trip'.familias = RemoveAt(trip.familias, k)
                     /\ [trip' EXCEPT !.familias = <<>>] = [trip EXCEPT !.familias = <<>>]
                ELSE trip' = trip]_vars

\* A name was taken out of the list, which is left with an earlier name of
\* the pool behind a later one.
C23_Witness ==
    /\ lastOp.op = "handleRemoveFamily"
    /\ lastOp.updated
    /\ trip.familias = <<NamePool[3], NamePool[1]>>

(***************************************************************************)
(* C24.  Recorded reimbursements are well-formed.                          *)
(***************************************************************************)
\* C24: when the history grows only by confirmed suggestions, every record
\* in it has an amount > 0.01 and a debtor other than its creditor, and the
\* record a confirmation appends names as debtor a listed participant whose
\* balance on display is < -0.01 and as creditor a listed participant whose
\* balance on display is > 0.01.
C24_WellFormedRecords ==
    /\ [](\A k \in 1..Len(trip.compensaciones) :
             /\ trip.compensaciones[k].cantidad > Tolerance
             /\ trip.compensaciones[k].deudor # trip.compensaciones[k].acreedor)
    /\ [][(phase = "computed" /\ lastOp'.op = "handleSettleDebt" /\ lastOp'.updated) =>
             LET r == trip'.compensaciones[Len(trip'.compensaciones)]
                 bs == financialData.balances
             IN  /\ r.cantidad > Tolerance
                 /\ r.deudor # r.acreedor
                 /\ \E k \in 1..Len(trip.familias) : trip.familias[k] = r.deudor
                 /\ \E k \in 1..Len(trip.familias) : trip.familias[k] = r.acreedor
                 /\ \E k \in 1..Len(bs) :
                       bs[k].family = r.deudor /\ bs[k].balance < -Tolerance
                 /\ \E k \in 1..Len(bs) :
                       bs[k].family = r.acreedor /\ bs[k].balance > Tolerance]_vars

\* A second suggestion was confirmed, between other participants than the
\* first.
C24_Witness ==
    /\ lastOp.op = "handleSettleDebt"
    /\ lastOp.updated
    /\ Len(trip.compensaciones) = 2
    /\ trip.compensaciones[2].cantidad = lastOp.cantidad
    /\ trip.compensaciones[1].deudor # trip.compensaciones[2].deudor

(***************************************************************************)
(* C25.  No overshoot.                                                     *)
(***************************************************************************)
\* C25: every suggestion has an amount > 0.01, a debtor with balance
\* < -0.01 and a creditor with balance > 0.01, hence two different
\* participants; the amounts a debtor is asked to pay sum to at most
\* |its balance| and the amounts a creditor is to receive sum to at most its
\* balance, so that with every suggestion executed no debtor has a positive
\* balance and no creditor a negative one.
C25_NoOvershoot ==
    Computed =>
        LET bs == financialData.balances
            ss == financialData.settlements
            after == AfterAll
        IN  /\ \A m \in 1..Len(ss) :
                  /\ ss[m].cantidad > Tolerance
                  /\ ss[m].deudor # ss[m].acreedor
                  /\ \E k \in 1..Len(bs) :
                        bs[k].family = ss[m].deudor /\ bs[k].balance < -Tolerance
                  /\ \E k \in 1..Len(bs) :
                        bs[k].family = ss[m].acreedor /\ bs[k].balance > Tolerance
            /\ \A k \in 1..Len(bs) :
                  /\ bs[k].balance < -Tolerance =>
                        /\ SumCantidad(ss, LAMBDA s : s.deudor = bs[k].family)
                              <= -bs[k].balance
                        /\ SumCantidad(ss, LAMBDA s : s.acreedor = bs[k].family) = 0
                        /\ after[k].balance <= 0
                  /\ bs[k].balance > Tolerance =>
                        /\ SumCantidad(ss, LAMBDA s : s.acreedor = bs[k].family)
                              <= bs[k].balance
                        /\ SumCantidad(ss, LAMBDA s : s.deudor = bs[k].family) = 0
                        /\ after[k].balance >= 0

\* A debtor asked to pay two creditors, together the whole of its debt.
C25_Witness ==
    /\ Computed
    /\ \E k \in 1..Len(financialData.balances) :
          /\ financialData.balances[k].balance < -Tolerance
          /\ SumCantidad(financialData.settlements,
                         LAMBDA s : s.deudor = financialData.balances[k].family)
                = -financialData.balances[k].balance
          /\ \E m, n \in 1..Len(financialData.settlements) :
                /\ financialData.settlements[m].deudor = financialData.balances[k].family
                /\ financialData.settlements[n].deudor = financialData.balances[k].family
                /\ m # n

(***************************************************************************)
(* C26.  Size bound.                                                       *)
(***************************************************************************)
\* C26: with at least one debtor and one creditor the number of suggestions
\* is at most the number of debtors plus the number of creditors minus one,
\* hence at most the number of participants minus one; without a debtor or
\* without a creditor there is no suggestion.
C26_SizeBound ==
    Computed =>
        LET bs == financialData.balances
            ss == financialData.settlements
            debtors == Cardinality({k \in 1..Len(bs) : bs[k].balance < -Tolerance})
            creditors == Cardinality({k \in 1..Len(bs) : bs[k].balance > Tolerance})
        IN  IF debtors = 0 \/ creditors = 0
            THEN ss = <<>>
            ELSE /\ Len(ss) <= debtors + creditors - 1
                 /\ Len(ss) <= Len(trip.familias) - 1

\* As many suggestions as the bound allows: three among four participants,
\* none of them settled.
C26_Witness ==
    /\ Computed
    /\ Len(trip.familias) = 4
    /\ Len(financialData.settlements) = 3
    /\ \A k \in 1..Len(financialData.balances) :
          Abs(financialData.balances[k].balance) > Tolerance

(***************************************************************************)
(* C27.  Confirming suggestions one at a time converges.                   *)
(***************************************************************************)
\* The total outstanding imbalance: the sum of |balance|.
Imbalance(balances) ==
    LET F[k \in 0..Len(balances)] ==
            IF k = 0 THEN 0 ELSE F[k - 1] + Abs(balances[k].balance)
    IN  F[Len(balances)]

\* What a confirmation does to the balances: the balances of the trip with
\* the record are those on display with the debtor's raised and the
\* creditor's lowered by the confirmed amount, and the total outstanding
\* imbalance is not larger.
ConfirmationSettles ==
    (phase = "computed" /\ lastOp'.op = "handleSettleDebt" /\ lastOp'.updated) =>
        LET old == financialData.balances
            new == Engine(trip', today, zone).balances
            s == Reimbursement(lastOp'.deudor, lastOp'.acreedor, lastOp'.cantidad)
        IN  /\ Len(new) = Len(old)
            /\ \A k \in 1..Len(old) :
                  new[k].balance = ApplySettlement(old, s)[k].balance
            /\ Imbalance(new) <= Imbalance(old)

\* C27: from any trip, confirming the first suggestion on display after
\* every render, with no other change to the trip, leads after finitely many
\* confirmations to a render without suggestions; every confirmation raises
\* the debtor's balance and lowers the creditor's by the confirmed amount and
\* does not lengthen the total outstanding imbalance.
C27_ConfirmingConverges ==
    /\ <>[](Computed /\ financialData.settlements = <<>>)
    /\ [][ConfirmationSettles]_vars

(***************************************************************************)
(* C28.  Settle / delete round trip.                                       *)
(***************************************************************************)
\* C28: after a confirmed handleSettleDebt, handleDeleteSettlement at the
\* index of the new record gives back the trip as it was before the
\* confirmation, history in its order, and on it the engine returns the
\* total, paid, fairShare, balances and settlements that were on display
\* before the confirmation; a confirmed handleDeleteSettlement at idx takes
\* exactly the record at idx out of the history and keeps the others in
\* their order.
C28_SettleDeleteRoundTrip ==
    [][/\ (phase = "computed" /\ lastOp'.op = "handleSettleDebt" /\ lastOp'.updated) =>
             LET back == DeleteSettlement(trip', Len(trip'.compensaciones))
                 again == Engine(back, today, zone)
             IN  /\ trip'.compensaciones[Len(trip'.compensaciones)] =
                       Reimbursement(lastOp'.deudor, lastOp'.acreedor, lastOp'.cantidad)
                 /\ back.compensaciones = trip.compensaciones
                 /\ back = trip
                 /\ again.total = financialData.total
                 /\ again.paid = financialData.paid
                 /\ again.fairShare = financialData.fairShare
                 /\ again.balances = financialData.balances
                 /\ again.settlements = financialData.settlements
       /\ (phase = "computed" /\ lastOp'.op = "handleDeleteSettlement"
              /\ lastOp'.updated) =>
             LET idx == lastOp'.idx
                 before == trip.compensaciones
                 after == trip'.compensaciones
             IN  /\ idx \in 1..Len(before)
                 /\ Len(after) = Len(before) - 1
                 /\ \A k \in 1..Len(after) :
                       after[k] = IF k < idx THEN before[k] ELSE before[k + 1]
                 /\ [trip' EXCEPT !.compensaciones = <<>>]
                       = [trip EXCEPT !.compensaciones = <<>>]]_vars

\* The newest of two records was deleted, and the render shows again the
\* suggestion that had been confirmed.
C28_Witness ==
    /\ Computed
    /\ lastOp.op = "handleDeleteSettlement"
    /\ lastOp.updated
    /\ lastOp.idx = 2
    /\ Len(trip.compensaciones) = 1
    /\ financialData.settlements # <<>>
    /\ financialData.settlements[1] # trip.compensaciones[1]
====
